---- MODULE Spec2Model ----
(***************************************************************************)
(* Model of the documentation job pipeline of deepwiki-open:               *)
(*   api/database.py            the job and stage tables                   *)
(*   api/documentation_agent.py the task queue, the worker thread, the     *)
(*                              DocumentationAgent stage pipeline          *)
(*   api/api.py                 the generate / delete / reset endpoints    *)
(*   api/rag.py, simple_chat.py the direct Agent callers                   *)
(*                                                                         *)
(* Threads: "W" is the worker thread, "E" the event-loop thread that runs  *)
(* the endpoint handlers and the runs started by the reset endpoint, the   *)
(* executor threads run RAG.call and the v2 chat Agent call.               *)
(***************************************************************************)
EXTENDS Integers, Sequences, FiniteSets, TLC

\* ------------------------------------------------------------------ bounds
MaxChapters == 14   \* longest parsed plan in the pipeline specification
PlanSmall == 1      \* longest parsed plan in the full specification
MaxCalls == 3       \* endpoint calls in one behaviour
MaxQueries == 2     \* direct Agent queries in one behaviour
MaxFailures == 3    \* failing Generator calls in one run of the pipeline specification
FewFailures == 1    \* failing Generator calls in one run elsewhere
MaxResets == 1      \* reset calls in one behaviour of the reset specification
MaxLines == 2       \* lines of a file tree given to _create_user_prompt

\* --------------------------------------------------------- program constants
max_retries == 3
retry_delay == 5
MAX_FILE_TREE_TOKENS == 10000
MAX_README_TOKENS == 5000
MAX_PREV_RESULT_TOKENS == 20000

None == "none"
NoTime == 0 - 1

\* the five fixed stages, in pipeline order (self.stages)
stages == <<"code_analysis", "planning", "content_generation",
            "optimization", "quality_check">>

FixedStages == {stages[i] : i \in 1..Len(stages)}

\* chapter ids of a parsed plan, in plan order, and the stage row written
\* for each (f"content_generation_{chapter_id}")
ChapterId ==
  <<"chapter-1", "chapter-2", "chapter-3", "chapter-4", "chapter-5",
    "chapter-6", "chapter-7", "chapter-8", "chapter-9", "chapter-10",
    "chapter-11", "chapter-12", "chapter-13", "chapter-14", "chapter-15",
    "chapter-16", "chapter-17", "chapter-18", "chapter-19", "chapter-20">>

ChapterStage ==
  <<"content_generation_chapter-1", "content_generation_chapter-2",
    "content_generation_chapter-3", "content_generation_chapter-4",
    "content_generation_chapter-5", "content_generation_chapter-6",
    "content_generation_chapter-7", "content_generation_chapter-8",
    "content_generation_chapter-9", "content_generation_chapter-10",
    "content_generation_chapter-11", "content_generation_chapter-12",
    "content_generation_chapter-13", "content_generation_chapter-14",
    "content_generation_chapter-15", "content_generation_chapter-16",
    "content_generation_chapter-17", "content_generation_chapter-18",
    "content_generation_chapter-19", "content_generation_chapter-20">>

\* ---------------------------------------------------------------- requests
RepoUrls == {"https://github.com/acme/foo", "https://github.com/acme/foo.git",
             "https://github.com/acme/bar"}
Titles == {"Foo Docs"}

\* re.search(r"(?:github\.com|gitlab\.com|bitbucket\.org)/([^/]+)/([^/]+)")
UrlMatch(repo_url) ==
  CASE repo_url = "https://github.com/acme/foo" -> <<"acme", "foo">>
    [] repo_url = "https://github.com/acme/foo.git" -> <<"acme", "foo.git">>
    [] repo_url = "https://github.com/acme/bar" -> <<"acme", "bar">>
    [] OTHER -> <<>>

\* repo.replace('.git', '')
StripGit(repo) == IF repo = "foo.git" THEN "foo" ELSE repo

\* sha1(f"{owner}/{repo}") of the canonical identity; the title is ignored
generate_request_id(repo_url, title) ==
  LET m == UrlMatch(repo_url)
  IN IF m = <<>> THEN <<"md5", repo_url, title>>
     ELSE <<"sha1", m[1], StripGit(m[2])>>

\* "".join(c if c.isalnum() else "_" for c in title)
safe_title(title) == IF title = "Foo Docs" THEN "Foo_Docs" ELSE title

\* os.path.join(output_dir, f"{safe_title}_{request_id}")
doc_dir(title, request_id) == <<safe_title(title)>> \o request_id

NoUrl == [dir |-> <<>>, file |-> None]

VARIABLES
  db,          \* [tasks: id -> job row, stages: set of stage rows]
  task_queue,  \* queue.Queue of (task_id, repo_url, title)
  clock,       \* logical time, advanced by every endpoint call
  lastCall,    \* the last endpoint call and what it returned
  wpc,         \* position of worker_thread
  wtask,       \* the queue item worker_thread is processing, and whether
               \* the worker has written a terminal status for it
  runs,        \* one generate_documentation activation per run id
  agent_lock,  \* documentation_agent.agent_lock (threading.RLock)
  loop,        \* what the event-loop thread is executing
  queries,     \* the direct Agent callers (RAG.call, chat endpoints)
  rag_lock,    \* rag.agent_lock (threading.RLock)
  nqueries,    \* direct queries issued so far
  files,       \* the output directory: path -> kind of content
  documentation_jobs,  \* the in-memory job dict of documentation_agent
  submitted,   \* history: the submissions not yet followed by a terminal state
  writers,     \* the save_documentation_stage calls in progress, per thread
  built        \* the last _create_user_prompt call: its arguments and result

vars == <<db, task_queue, clock, lastCall, wpc, wtask, runs, agent_lock,
          loop, queries, rag_lock, nqueries, files, documentation_jobs,
          submitted, writers, built>>

\* ------------------------------------------------------------ the database
NoTask == [request_id |-> <<>>, status |-> None]

\* INSERT or UPDATE of documentation_tasks; the UPDATE writes every column
\* except id and created_at
save_documentation_task(d, now, task_id, repo_url, title, status, progress, current_stage, error, completed_at, output_url, task_data) ==
  IF task_id \in DOMAIN d.tasks
  THEN [d EXCEPT !.tasks[task_id] =
          [@ EXCEPT !.repo_url = repo_url, !.title = title,
                    !.status = status, !.progress = progress,
                    !.current_stage = current_stage, !.error = error,
                    !.completed_at = completed_at,
                    !.output_url = output_url, !.task_data = task_data]]
  ELSE [d EXCEPT !.tasks = (task_id :>
          [request_id |-> task_id, repo_url |-> repo_url, title |-> title,
           status |-> status, progress |-> progress,
           current_stage |-> current_stage, error |-> error,
           created_at |-> now, completed_at |-> completed_at,
           output_url |-> output_url, task_data |-> task_data]) @@ @]

\* Faulty variant: the lookup goes to the in-memory job dict of
\* documentation_agent (get_documentation_job there), which the submission
\* path never fills.
get_documentation_task_in_memory(d, task_id) ==
  NoTask

\* SELECT of the task row by id; None when there is no such row
get_documentation_task(d, task_id) ==
  IF task_id \in DOMAIN d.tasks THEN d.tasks[task_id] ELSE NoTask

StageRows(d, task_id) == {r \in d.stages : r.task_id = task_id}

\* SELECT id FROM documentation_stages WHERE task_id = ? AND name = ?
stage_exists(d, task_id, name) ==
  \E r \in d.stages : r.task_id = task_id /\ r.name = name

\* UPDATE documentation_stages SET ... WHERE task_id = ? AND name = ?
update_documentation_stage(d, row) ==
  [d EXCEPT !.stages =
     {IF r.task_id = row.task_id /\ r.name = row.name THEN row ELSE r :
        r \in @}]

\* Faulty variant: the table has no UNIQUE(task_id, name).
insert_documentation_stage_no_unique(d, row) ==
  [d EXCEPT !.stages = @ \cup {row}]

\* INSERT INTO documentation_stages; under UNIQUE(task_id, name) an INSERT
\* for a pair that has a row raises IntegrityError, which is rolled back
insert_documentation_stage(d, row) ==
  IF stage_exists(d, row.task_id, row.name) THEN d
  ELSE [d EXCEPT !.stages = @ \cup {row}]

\* the UPDATE or the INSERT of save_documentation_stage, chosen by what its
\* SELECT has seen
save_documentation_stage_seen(d, seen, task_id, name, description, completed, execution_time, error) ==
  LET row == [task_id |-> task_id, name |-> name,
              description |-> description, completed |-> completed,
              execution_time |-> execution_time, error |-> error]
  IN IF seen THEN update_documentation_stage(d, row)
     ELSE insert_documentation_stage(d, row)

\* SELECT by (task_id, name), then UPDATE of the row or INSERT of a new one
save_documentation_stage(d, task_id, name, description, completed, execution_time, error) ==
  save_documentation_stage_seen(d, stage_exists(d, task_id, name), task_id,
                                name, description, completed, execution_time,
                                error)

\* Faulty variant: the stage rows of the task are left behind.
delete_documentation_task_keeps_stages(d, task_id) ==
  [d EXCEPT !.tasks = [k \in (DOMAIN @) \ {task_id} |-> @[k]]]

\* Faulty variant: the DELETE of the stage rows has no WHERE clause.
delete_documentation_task_every_stage(d, task_id) ==
  [d EXCEPT !.stages = {},
            !.tasks = [k \in (DOMAIN @) \ {task_id} |-> @[k]]]

\* DELETE of the task's stage rows, then of the task row
delete_documentation_task(d, task_id) ==
  [d EXCEPT !.stages = {r \in @ : r.task_id # task_id},
            !.tasks = [k \in (DOMAIN @) \ {task_id} |-> @[k]]]

\* UPDATE documentation_tasks SET status, completed_at, error (four forms)
update_documentation_task_status(d, task_id, status, completed_at, error) ==
  IF task_id \notin DOMAIN d.tasks THEN d
  ELSE IF completed_at # NoTime /\ error # None
  THEN [d EXCEPT !.tasks[task_id] = [@ EXCEPT !.status = status,
           !.completed_at = completed_at, !.error = error]]
  ELSE IF completed_at # NoTime
  THEN [d EXCEPT !.tasks[task_id] = [@ EXCEPT !.status = status,
           !.completed_at = completed_at]]
  ELSE IF error # None
  THEN [d EXCEPT !.tasks[task_id] = [@ EXCEPT !.status = status,
           !.error = error]]
  ELSE [d EXCEPT !.tasks[task_id] = [@ EXCEPT !.status = status,
           !.completed_at = NoTime, !.error = None]]

\* Faulty variant: only the execution times are cleared.
reset_documentation_stages_keeps_flags(d, task_id) ==
  [d EXCEPT !.stages =
     {IF r.task_id = task_id
      THEN [r EXCEPT !.execution_time = None]
      ELSE r : r \in @}]

\* UPDATE documentation_stages SET completed = 0, execution_time = NULL
reset_documentation_stages(d, task_id) ==
  [d EXCEPT !.stages =
     {IF r.task_id = task_id
      THEN [r EXCEPT !.completed = FALSE, !.execution_time = None]
      ELSE r : r \in @}]

\* the default stage list written at submission and by the worker
DefaultDescription(name) ==
  CASE name = "code_analysis" -> "Analyzing repository structure and code"
    [] name = "planning" -> "Planning documentation structure"
    [] name = "content_generation" -> "Generating documentation content"
    [] name = "optimization" -> "Optimizing and refining content"
    [] name = "quality_check" -> "Performing quality checks"

RECURSIVE SaveDefaultStages(_, _, _)
SaveDefaultStages(d, task_id, i) ==
  IF i > Len(stages) THEN d
  ELSE SaveDefaultStages(
         save_documentation_stage(d, task_id, stages[i],
                                  DefaultDescription(stages[i]), FALSE,
                                  None, None),
         task_id, i + 1)

\* save_documentation_task(status="pending", progress=0, created_at=now,
\* task_data={"message": ...}) followed by the five stage rows
CreatePendingTask(d, now, task_id, repo_url, title) ==
  SaveDefaultStages(
    save_documentation_task(d, now, task_id, repo_url, title, "pending", 0,
                            None, None, NoTime, NoUrl, "message"),
    task_id, 1)

\* ------------------------------------------------------------- submission
JobIds == {generate_request_id(u, t) : u \in RepoUrls, t \in Titles}

Requests == RepoUrls \X Titles

\* history of submit(R, T, force=false): "open" from the call until a terminal
\* status of the job is written, "deleted" once the delete endpoint removed
\* the job inside that window
NoWindow == [state |-> "closed", id |-> <<>>]

WindowTerminal(sub, task_id) ==
  [p \in DOMAIN sub |->
     IF generate_request_id(p[1], p[2]) = task_id THEN NoWindow ELSE sub[p]]

WindowDeleted(sub, task_id) ==
  [p \in DOMAIN sub |->
     IF generate_request_id(p[1], p[2]) = task_id /\ sub[p].state = "open"
     THEN [sub[p] EXCEPT !.state = "deleted"] ELSE sub[p]]

\* api.get_documentation_job: the job row read from the database
get_documentation_job(d, task_id) ==
  get_documentation_task(d, task_id)

\* Faulty variant: the status of an existing job is not looked at.
submit_job_always_enqueues(d, q, now, repo_url, title, force) ==
  LET task_id == generate_request_id(repo_url, title)
  IN [db |-> CreatePendingTask(d, now, task_id, repo_url, title),
      queue |-> Append(q, [task_id |-> task_id, repo_url |-> repo_url,
                           title |-> title, seq |-> now]),
      task_id |-> task_id, enqueued |-> TRUE]

\* DocumentationAgent.submit_job: [db, queue, task_id, enqueued]; a queue
\* entry carries, as history, the time of its task_queue.put
submit_job(d, q, now, repo_url, title, force) ==
  LET task_id == generate_request_id(repo_url, title)
      task_info == get_documentation_task(d, task_id)
  IN IF task_info # NoTask /\ ~force /\ task_info.status # "failed"
     THEN [db |-> d, queue |-> q, task_id |-> task_id, enqueued |-> FALSE]
     ELSE [db |-> CreatePendingTask(d, now, task_id, repo_url, title),
           queue |-> Append(q, [task_id |-> task_id, repo_url |-> repo_url,
                                title |-> title, seq |-> now]),
           task_id |-> task_id, enqueued |-> TRUE]

\* POST /api/v2/documentation/generate
generate_documentation_endpoint(d, q, now, repo_url, title, force) ==
  LET request_id == generate_request_id(repo_url, title)
      existing_job == get_documentation_job(d, request_id)
      d1 == IF force /\ existing_job # NoTask
            THEN delete_documentation_task(d, request_id) ELSE d
  IN IF ~(force /\ existing_job # NoTask) /\ existing_job # NoTask
        /\ existing_job.status \in {"pending", "running"}
     THEN [db |-> d, queue |-> q, task_id |-> request_id, enqueued |-> FALSE]
     ELSE submit_job(d1, q, now, repo_url, title, force)

Call(op, request_id, force, existing, enqueued, window, success) ==
  [op |-> op, request_id |-> request_id, force |-> force,
   existing |-> existing, enqueued |-> enqueued, window |-> window,
   success |-> success]

Submit(repo_url, title, force) ==
  /\ loop = "idle"
  /\ clock < MaxCalls
  /\ LET r == generate_documentation_endpoint(db, task_queue, clock + 1,
                                              repo_url, title, force)
         p == <<repo_url, title>>
     IN /\ db' = r.db
        /\ task_queue' = r.queue
        /\ lastCall' = Call("submit", r.task_id, force,
                            get_documentation_task(db, r.task_id).status,
                            r.enqueued, submitted[p], TRUE)
        /\ submitted' = IF force THEN submitted
                        ELSE [submitted EXCEPT ![p] =
                                [state |-> "open", id |-> r.task_id]]
  /\ clock' = clock + 1
  /\ UNCHANGED <<wpc, wtask, runs, agent_lock, loop, queries, rag_lock,
                 nqueries, files, documentation_jobs, writers, built>>

\* DELETE /api/v2/documentation/delete/{request_id}; a missing task is a 404.
\* The directory it removes (~/.deepwiki/documentation/...) is not the one
\* generate_documentation writes to, so no output file is touched.
Delete(request_id) ==
  /\ loop = "idle"
  /\ clock < MaxCalls
  /\ get_documentation_task(db, request_id) # NoTask
  /\ db' = delete_documentation_task(db, request_id)
  /\ documentation_jobs' = documentation_jobs \ {request_id}
  /\ lastCall' = Call("delete", request_id, FALSE,
                      get_documentation_task(db, request_id).status, FALSE,
                      NoWindow, TRUE)
  /\ submitted' = WindowDeleted(submitted, request_id)
  /\ clock' = clock + 1
  /\ UNCHANGED <<task_queue, wpc, wtask, runs, agent_lock, loop, queries,
                 rag_lock, nqueries, files, writers, built>>

\* ---------------------------------------------------------------- the runs
ResetRuns == {"reset1", "reset2"}
RunIds == {"worker"} \cup ResetRuns

Thread(r) == IF r = "worker" THEN "W" ELSE "E"

IdleRun ==
  [pc |-> "none", task_id |-> <<>>, repo_url |-> None, title |-> None,
   results |-> {}, stage |-> None, chapter |-> 0, plan |-> None,
   nchapters |-> 0, retry |-> 0, delay |-> 0, exc |-> None,
   fetched |-> FALSE, invoked |-> {}, failed |-> {}, nfail |-> 0,
   lastOrd |-> 0, inOrder |-> TRUE, caught |-> None, prompt |-> {},
   toc |-> <<>>]

\* generate_documentation(repo_url, title, request_id) about to start
StartRun(task_id, repo_url, title) ==
  [IdleRun EXCEPT !.pc = "fetch", !.task_id = task_id,
                  !.repo_url = repo_url, !.title = title]

Active(r) == runs[r].pc \notin {"none", "returned", "raised"}

\* the key under which a stage result is stored in results
ResultKey(run) ==
  IF run.stage = "content_generation" THEN ChapterStage[run.chapter]
  ELSE run.stage

\* position of a Generator call in the order of one run
StageOrd(run) ==
  CASE run.stage = "code_analysis" -> 1
    [] run.stage = "planning" -> 2
    [] run.stage = "content_generation" -> 2 + run.chapter
    [] run.stage = "optimization" -> 1000
    [] run.stage = "quality_check" -> 1001

\* a run on the event-loop thread executes only while the loop runs it; it
\* is given the loop when it is first scheduled and when its sleep is over
CanStep(r) ==
  \/ r = "worker"
  \/ loop = r
  \/ loop = "idle" /\ runs[r].pc \in {"fetch", "backoff"}

LoopAfter(r, pc) ==
  IF r = "worker" THEN loop
  ELSE IF pc \in {"backoff", "none"} THEN "idle" ELSE r

SaveRunning(d, run, progress, current_stage) ==
  save_documentation_task(d, clock, run.task_id, run.repo_url, run.title,
                          "running", progress, current_stage, None, NoTime,
                          NoUrl, None)

\* Faulty variant: the exception of the fetch is swallowed and the run goes
\* on without the repository structure.
Fetch_swallows_error(r) ==
  /\ runs[r].pc = "fetch"
  /\ CanStep(r)
  /\ \E ok \in BOOLEAN :
       runs' = [runs EXCEPT ![r] =
                  [@ EXCEPT !.pc = "save_first", !.fetched = ok]]
  /\ loop' = LoopAfter(r, "fetch")
  /\ UNCHANGED <<db, task_queue, clock, lastCall, wpc, wtask, agent_lock,
                 queries, rag_lock, nqueries, files, documentation_jobs,
                 submitted, writers, built>>

\* fetch_repository_structure: the file tree and README, or ValueError
Fetch(r) ==
  /\ runs[r].pc = "fetch"
  /\ CanStep(r)
  /\ \E ok \in BOOLEAN :
       runs' = [runs EXCEPT ![r] =
                  IF ok THEN [@ EXCEPT !.pc = "save_first", !.fetched = TRUE]
                  ELSE [@ EXCEPT !.pc = "raised",
                                 !.exc = "Could not fetch repository structure"]]
  /\ loop' = LoopAfter(r, "fetch")
  /\ UNCHANGED <<db, task_queue, clock, lastCall, wpc, wtask, agent_lock,
                 queries, rag_lock, nqueries, files, documentation_jobs,
                 submitted, writers, built>>

\* status running, progress 20, current_stage = self.stages[0]
SaveFirst(r) ==
  /\ runs[r].pc = "save_first"
  /\ CanStep(r)
  /\ db' = SaveRunning(db, runs[r], 20, stages[1])
  /\ runs' = [runs EXCEPT ![r] = [@ EXCEPT !.pc = "save_stage",
                                           !.stage = "code_analysis"]]
  /\ UNCHANGED <<task_queue, clock, lastCall, wpc, wtask, agent_lock, loop,
                 queries, rag_lock, nqueries, files, documentation_jobs,
                 submitted, writers, built>>

\* progress written before a stage: 20 + index * 10 for the initial stages,
\* 40 + index * 5 for the chapter at that index of the plan, 70 and 85
StageProgress(run) ==
  CASE run.stage = "code_analysis" -> 20
    [] run.stage = "planning" -> 20 + 10
    [] run.stage = "content_generation" -> 40 + (run.chapter - 1) * 5
    [] run.stage = "optimization" -> 70
    [] run.stage = "quality_check" -> 85

\* the job row is updated for the stage, then process_stage marks the row of
\* its stage argument as in progress
SaveStage(r) ==
  /\ runs[r].pc = "save_stage"
  /\ CanStep(r)
  /\ db' = save_documentation_stage(
             SaveRunning(db, runs[r], StageProgress(runs[r]),
                         ResultKey(runs[r])),
             runs[r].task_id, runs[r].stage, "Processing", FALSE, None, None)
  /\ runs' = [runs EXCEPT ![r] = [@ EXCEPT !.pc = "acquire"]]
  /\ UNCHANGED <<task_queue, clock, lastCall, wpc, wtask, agent_lock, loop,
                 queries, rag_lock, nqueries, files, documentation_jobs,
                 submitted, writers, built>>

\* ------------------------------------------------------- the user prompt
\* the keys of previous_results whose content _create_user_prompt puts into
\* the prompt of a stage
PriorKeys(stage, keys) ==
  CASE stage = "planning" -> {"code_analysis"} \cap keys
    [] stage = "content_generation" ->
         IF {"code_analysis", "planning"} \subseteq keys
         THEN {"code_analysis", "planning"} ELSE {}
    [] stage = "optimization" -> {"content_generation"} \cap keys
    [] stage = "quality_check" -> {"optimization"} \cap keys
    [] OTHER -> {}

RECURSIVE SumLens(_, _)
SumLens(lens, n) == IF n = 0 THEN 0 ELSE lens[n] + SumLens(lens, n - 1)

\* len('\n'.join(lines)) for the first n lines; a text is given by the
\* lengths of its lines
JoinedLen(lens, n) == IF n = 0 THEN 0 ELSE SumLens(lens, n) + (n - 1)

\* the estimate of the code: 1 token for 4 characters
Tokens(chars) == chars \div 4

\* the truncation loop of the file tree: the lines are taken in order while
\* current_tokens + len(file_path) // 4 <= MAX_FILE_TREE_TOKENS, and the
\* loop breaks at the first line that does not fit; the number of lines kept
RECURSIVE TruncatedFiles(_, _, _)
TruncatedFiles(file_list, i, current_tokens) ==
  IF i > Len(file_list) THEN Len(file_list)
  ELSE IF current_tokens + Tokens(file_list[i]) <= MAX_FILE_TREE_TOKENS
  THEN TruncatedFiles(file_list, i + 1, current_tokens + Tokens(file_list[i]))
  ELSE i - 1

\* the "Repository File Structure" section: the characters of file-tree text
\* in it and whether the truncation marker follows; <<>> is no file tree
FileTreeSection(stage, file_tree) ==
  IF stage # "code_analysis" \/ file_tree = <<>>
  THEN [chars |-> 0, truncated |-> FALSE]
  ELSE IF Tokens(JoinedLen(file_tree, Len(file_tree))) > MAX_FILE_TREE_TOKENS
  THEN [chars |-> JoinedLen(file_tree, TruncatedFiles(file_tree, 1, 0)),
        truncated |-> TRUE]
  ELSE [chars |-> JoinedLen(file_tree, Len(file_tree)), truncated |-> FALSE]

\* the "Repository README" section: readme[:MAX_README_TOKENS * 4]
ReadmeSection(readme) ==
  IF Tokens(readme) > MAX_README_TOKENS
  THEN [chars |-> MAX_README_TOKENS * 4, truncated |-> TRUE]
  ELSE [chars |-> readme, truncated |-> FALSE]

Min(a, b) == IF a <= b THEN a ELSE b

\* content[:MAX_PREV_RESULT_TOKENS * 4] when the estimate exceeds the limit
TruncatedResult(chars) ==
  IF Tokens(chars) > MAX_PREV_RESULT_TOKENS
  THEN MAX_PREV_RESULT_TOKENS * 4 ELSE chars

\* the (tokens, total_tokens) pairs, among those of the result lengths below,
\* for which the double product available_tokens * (tokens / total_tokens)
\* falls just under the integer that the exact product is:
\* 40000 * (22857 / 40100) is 22799.999999999996
RoundedBelow == {<<22857, 40100>>}

\* int(available_tokens * ratio) with ratio = tokens / total_tokens, both
\* computed in double arithmetic
IntOfShare(available_tokens, tokens, total_tokens) ==
  LET exact == (available_tokens * tokens) \div total_tokens
  IN IF <<tokens, total_tokens>> \in RoundedBelow THEN exact - 1 ELSE exact

\* Faulty variant: each of the two results gets the single-stage budget.
ProportionalResult_even_split(chars, other) ==
  LET available_tokens == MAX_PREV_RESULT_TOKENS * 2
      total_tokens == Tokens(chars) + Tokens(other)
  IN IF total_tokens > available_tokens
     THEN Min(chars, MAX_PREV_RESULT_TOKENS * 4)
     ELSE chars

\* content_generation with both results: 2 * MAX_PREV_RESULT_TOKENS are
\* shared in proportion to the two estimates, int(available * ratio) each
ProportionalResult(chars, other) ==
  LET available_tokens == MAX_PREV_RESULT_TOKENS * 2
      total_tokens == Tokens(chars) + Tokens(other)
  IN IF total_tokens > available_tokens
     THEN Min(chars,
              IntOfShare(available_tokens, Tokens(chars), total_tokens) * 4)
     ELSE chars

\* the characters of the result of key k that are put into the prompt (the
\* truncation marker not counted); prev gives the length of each result
PriorChars(stage, prev, k) ==
  IF stage = "content_generation"
  THEN ProportionalResult(prev[k],
         prev[CHOOSE o \in {"code_analysis", "planning"} : o # k])
  ELSE TruncatedResult(prev[k])

\* _create_user_prompt: the sections of the prompt that depend on the
\* arguments, each by its number of characters
create_user_prompt(stage, prev, file_tree, readme) ==
  [tree |-> FileTreeSection(stage, file_tree),
   readme |-> ReadmeSection(readme),
   prior |-> [k \in PriorKeys(stage, DOMAIN prev) |->
                PriorChars(stage, prev, k)]]

\* chapter_context = {"chapter_id": ..., "chapter_title": ...,
\* "chapter_xml": ...}; each value is named by the chapter it is taken from
chapter_context(chapter) ==
  [k \in {"chapter_id", "chapter_title", "chapter_xml"} |->
     ChapterId[chapter]]

\* the previous_results argument of the process_stage call of the run: the
\* chapter context in the chapter loop, the results dict elsewhere; a
\* result is named by its key
PreviousResults(run) ==
  IF run.stage = "content_generation" THEN chapter_context(run.chapter)
  ELSE [k \in run.results |-> k]

\* the contents of previous_results that are part of the user prompt
PromptOf(run) ==
  LET prev == PreviousResults(run)
  IN {prev[k] : k \in PriorKeys(run.stage, DOMAIN prev)}

\* threading.RLock: free, or already owned by the acquiring thread
LockAcquire(l, t) == [owner |-> t, count |-> l.count + 1]

LockRelease(l) ==
  IF l.count = 1 THEN [owner |-> "none", count |-> 0]
  ELSE [l EXCEPT !.count = @ - 1]

\* history: the last Generator call made for the job of run r, by r itself or
\* by another run of the same job that has not ended
LastOrdOfJob(r) ==
  LET same == {q \in RunIds : runs[q].task_id = runs[r].task_id /\ Active(q)}
      Max(S) == CHOOSE x \in S : \A y \in S : y <= x
  IN Max({runs[q].lastOrd : q \in same \cup {r}})

\* user_prompt = self._create_user_prompt(...), then with agent_lock: ...
\* response = self.agent(prompt=user_prompt, system=system_prompt)
Acquire(r) ==
  /\ runs[r].pc = "acquire"
  /\ CanStep(r)
  /\ agent_lock.owner \in {"none", Thread(r)}
  /\ agent_lock' = LockAcquire(agent_lock, Thread(r))
  /\ runs' = [runs EXCEPT ![r] =
       [@ EXCEPT !.pc = "in_call", !.retry = 0, !.delay = retry_delay,
                 !.prompt = PromptOf(runs[r]),
                 !.invoked = @ \cup {ResultKey(runs[r])},
                 !.inOrder = @ /\ StageOrd(runs[r]) > LastOrdOfJob(r),
                 !.lastOrd = StageOrd(runs[r])]]
  /\ UNCHANGED <<db, task_queue, clock, lastCall, wpc, wtask, loop, queries,
                 rag_lock, nqueries, files, documentation_jobs, submitted,
                 writers, built>>

\* --------------------------------------------------- the outcome of a call
\* what the planning text turns out to be when the plan is extracted
PlanKinds == {"well_formed", "repairable", "no_markers", "unparsable"}

Parsed(plan) == plan \in {"well_formed", "repairable"}

StageCompleted(d, run) ==
  save_documentation_stage(d, run.task_id, ResultKey(run), "Completed", TRUE,
                           "1.0", None)

\* the except clause of the stage: one clause per initial stage and per
\* chapter, a single clause around optimization and quality_check together
StageFailed(d, run, err) ==
  IF run.stage \in {"optimization", "quality_check"}
  THEN save_documentation_stage(
         save_documentation_stage(d, run.task_id, "optimization",
                                  "Error in optimization", FALSE, None, err),
         run.task_id, "quality_check", "Error in quality check", FALSE, None,
         err)
  ELSE save_documentation_stage(d, run.task_id, ResultKey(run), "Error",
                                FALSE, None, err)

\* self._compile_final_documentation is not a method of DocumentationAgent:
\* the call after quality_check raises AttributeError inside the try block
compile_final_documentation(results) == "AttributeError"

\* where the run goes after the stage it has just executed; the next
\* iteration of the chapter loop adds the link of its chapter to toc_content
AfterStage(run, ok) ==
  CASE run.stage = "code_analysis" ->
         [run EXCEPT !.pc = "save_stage", !.stage = "planning"]
    [] run.stage = "planning" -> [run EXCEPT !.pc = "post_planning"]
    [] run.stage = "content_generation" ->
         IF run.chapter < run.nchapters
         THEN [run EXCEPT !.pc = "save_stage", !.chapter = @ + 1,
                          !.toc = Append(@, ChapterId[run.chapter + 1])]
         ELSE [run EXCEPT !.pc = "save_stage", !.stage = "optimization"]
    [] run.stage = "optimization" ->
         IF ok THEN [run EXCEPT !.pc = "save_stage", !.stage = "quality_check"]
         ELSE [run EXCEPT !.pc = "save_final"]
    [] run.stage = "quality_check" -> [run EXCEPT !.pc = "save_final"]

IndexPath(run) == doc_dir(run.title, run.task_id) \o <<"index.md">>

ChapterPath(run) ==
  doc_dir(run.title, run.task_id) \o <<"chapters", ChapterId[run.chapter]>>

WriteFile(f, path, kind) ==
  [q \in (DOMAIN f) \cup {path} |-> IF q = path THEN kind ELSE f[q]]

\* Faulty variant: the chapter file is only written when the Generator call
\* of the chapter returned.
ChapterFiles_only_on_success(f, run, kind) ==
  IF run.stage # "content_generation" THEN f
  ELSE LET g == IF kind = "generated"
                THEN WriteFile(f, ChapterPath(run), kind) ELSE f
       IN IF run.chapter < run.nchapters THEN g
          ELSE WriteFile(g, IndexPath(run), "toc")

\* the chapter file is written after every chapter, the table of contents
\* after the last one
ChapterFiles(f, run, kind) ==
  IF run.stage # "content_generation" THEN f
  ELSE IF run.chapter < run.nchapters
  THEN WriteFile(f, ChapterPath(run), kind)
  ELSE WriteFile(WriteFile(f, ChapterPath(run), kind), IndexPath(run), "toc")

\* self.agent(...) returns: the result is stored and the stage row completed
GenOk(r, maxCh) ==
  /\ runs[r].pc = "in_call"
  /\ CanStep(r)
  /\ \E plan \in PlanKinds \cup {None}, n \in 0..maxCh :
       /\ IF runs[r].stage = "planning"
          THEN plan # None /\ (~Parsed(plan) => n = 0)
          ELSE plan = None /\ n = 0
       /\ LET run == [runs[r] EXCEPT !.results = @ \cup {ResultKey(runs[r])},
                                     !.plan = IF plan = None THEN @ ELSE plan,
                                     !.nchapters = IF plan = None THEN @
                                                   ELSE n]
              d1 == StageCompleted(db, run)
          IN /\ db' = IF run.stage = "quality_check"
                         /\ compile_final_documentation(run.results)
                              = "AttributeError"
                      THEN StageFailed(d1, run, "AttributeError")
                      ELSE d1
             /\ runs' = [runs EXCEPT ![r] = AfterStage(run, TRUE)]
             /\ files' = ChapterFiles(files, run, "generated")
  /\ agent_lock' = LockRelease(agent_lock)
  /\ UNCHANGED <<task_queue, clock, lastCall, wpc, wtask, loop, queries,
                 rag_lock, nqueries, documentation_jobs, submitted, writers,
                 built>>

\* what self.agent(...) can raise: the context-too-large error of the model
\* and any other exception
Errors == {"Too many tokens", "generator error"}

\* Faulty variant: the context-too-large error is retried without a limit.
Retryable_no_limit(err, retry) ==
  err = "Too many tokens"

\* Faulty variant: every exception is retried while attempts are left.
Retryable_any_error(err, retry) ==
  retry < max_retries - 1

\* if "Too many tokens" in str(e) and retry < max_retries - 1
Retryable(err, retry) ==
  err = "Too many tokens" /\ retry < max_retries - 1

\* the Generator calls made so far by the retry loop of the current stage
Invocations(run) == run.retry + 1

\* a retried exception: await asyncio.sleep(retry_delay) inside the with
\* block, the lock stays held
GenTransient(r, maxFail) ==
  /\ runs[r].pc = "in_call"
  /\ CanStep(r)
  /\ runs[r].nfail < maxFail
  /\ \E err \in Errors :
       /\ Retryable(err, runs[r].retry)
       /\ runs' = [runs EXCEPT ![r] = [@ EXCEPT !.pc = "backoff",
                                                !.nfail = @ + 1,
                                                !.caught = err]]
  /\ loop' = LoopAfter(r, "backoff")
  /\ UNCHANGED <<db, task_queue, clock, lastCall, wpc, wtask, agent_lock,
                 queries, rag_lock, nqueries, files, documentation_jobs,
                 submitted, writers, built>>

\* the sleep is over: retry_delay doubles and the Agent is called again
Backoff(r) ==
  /\ runs[r].pc = "backoff"
  /\ CanStep(r)
  /\ runs' = [runs EXCEPT ![r] = [@ EXCEPT !.pc = "in_call",
                                           !.retry = @ + 1,
                                           !.delay = @ * 2,
                                           !.caught = None]]
  /\ loop' = LoopAfter(r, "in_call")
  /\ UNCHANGED <<db, task_queue, clock, lastCall, wpc, wtask, agent_lock,
                 queries, rag_lock, nqueries, files, documentation_jobs,
                 submitted, writers, built>>

\* any other exception, or "Too many tokens" on the last attempt: the
\* exception leaves process_stage and the caller records the failed stage
GenError(r, maxFail) ==
  /\ runs[r].pc = "in_call"
  /\ CanStep(r)
  /\ runs[r].nfail < maxFail
  /\ \E err \in Errors :
       /\ ~Retryable(err, runs[r].retry)
       /\ LET run == [runs[r] EXCEPT
                        !.failed = @ \cup {<<ResultKey(runs[r]), err>>},
                        !.nfail = @ + 1]
          IN /\ db' = StageFailed(db, run, err)
             /\ runs' = [runs EXCEPT ![r] = AfterStage(run, FALSE)]
             /\ files' = ChapterFiles(files, run, "outline")
  /\ agent_lock' = LockRelease(agent_lock)
  /\ UNCHANGED <<task_queue, clock, lastCall, wpc, wtask, loop, queries,
                 rag_lock, nqueries, documentation_jobs, submitted, writers,
                 built>>

\* ------------------------------------------------- after the planning stage
\* _compile_final_documentation_with_fallback: with no result at all it
\* returns the "no content" document; with any result it evaluates
\* StageResult(stage="", content="") as a default, which lacks the required
\* completed_at and raises TypeError
compile_final_documentation_with_fallback(results) ==
  IF results = {} THEN "flat_no_content" ELSE "TypeError"

\* the sections of a document written to index.md, by the kind of document:
\* the table of contents of a parsed plan (toc_content) and the document
\* that the fallback compiler returns at its "if not results" branch, before
\* it reaches the "Generation Status" section
DocumentSections(kind) ==
  CASE kind = "toc" ->
         {"title", "generated_on", "description", "table_of_contents"}
    [] kind = "flat_no_content" ->
         {"title", "generated_on", "repository", "error"}
    [] OTHER -> {}

\* the plan is extracted from the planning text, or the flat document is
\* compiled; an exception of the fallback compiler leaves the run
PostPlanning(r) ==
  /\ runs[r].pc = "post_planning"
  /\ CanStep(r)
  /\ LET run == runs[r]
         dir == doc_dir(run.title, run.task_id)
         xml == WriteFile(files, dir \o <<"index.xml">>, "xml")
         flat == compile_final_documentation_with_fallback(run.results)
         raised == [run EXCEPT !.pc = "raised", !.exc = "TypeError"]
     IN IF "planning" \in run.results
        THEN CASE Parsed(run.plan) /\ run.nchapters > 0 ->
                    /\ files' = xml
                    /\ runs' = [runs EXCEPT ![r] =
                         [run EXCEPT !.pc = "save_stage",
                                     !.stage = "content_generation",
                                     !.chapter = 1,
                                     !.toc = <<ChapterId[1]>>]]
               [] Parsed(run.plan) /\ run.nchapters = 0 ->
                    /\ files' = WriteFile(xml, IndexPath(run), "toc")
                    /\ runs' = [runs EXCEPT ![r] =
                         [run EXCEPT !.pc = "save_stage",
                                     !.stage = "optimization"]]
               [] run.plan = "unparsable" ->
                    /\ files' = xml
                    /\ runs' = [runs EXCEPT ![r] = raised]
               [] run.plan = "no_markers" ->
                    /\ files' = files
                    /\ runs' = [runs EXCEPT ![r] = raised]
        ELSE IF flat = "TypeError"
        THEN /\ files' = files
             /\ runs' = [runs EXCEPT ![r] = raised]
        ELSE /\ files' = WriteFile(files, IndexPath(run), flat)
             /\ runs' = [runs EXCEPT ![r] =
                  [run EXCEPT !.pc = "save_stage", !.stage = "optimization"]]
  /\ UNCHANGED <<db, task_queue, clock, lastCall, wpc, wtask, agent_lock,
                 loop, queries, rag_lock, nqueries, documentation_jobs,
                 submitted, writers, built>>

\* f"/api/v2/documentation/file/{os.path.basename(doc_dir)}/index.md"
RunOutputUrl(run) ==
  [dir |-> doc_dir(run.title, run.task_id), file |-> "index.md"]

\* status completed, progress 100, written at the end of every run that was
\* not left by an exception
SaveFinal(r) ==
  /\ runs[r].pc = "save_final"
  /\ CanStep(r)
  /\ db' = save_documentation_task(db, clock, runs[r].task_id,
             runs[r].repo_url, runs[r].title, "completed", 100, None, None,
             clock, RunOutputUrl(runs[r]), None)
  /\ runs' = [runs EXCEPT ![r] = [@ EXCEPT !.pc = "returned"]]
  /\ submitted' = WindowTerminal(submitted, runs[r].task_id)
  /\ UNCHANGED <<task_queue, clock, lastCall, wpc, wtask, agent_lock, loop,
                 queries, rag_lock, nqueries, files, documentation_jobs,
                 writers, built>>

\* the asyncio task of a run started by the reset endpoint ends; an
\* exception it raised is never retrieved
RunEnd(r) ==
  /\ r \in ResetRuns
  /\ runs[r].pc \in {"returned", "raised"}
  /\ loop = r
  /\ runs' = [runs EXCEPT ![r] = IdleRun]
  /\ loop' = "idle"
  /\ UNCHANGED <<db, task_queue, clock, lastCall, wpc, wtask, agent_lock,
                 queries, rag_lock, nqueries, files, documentation_jobs,
                 submitted, writers, built>>

\* ------------------------------------------------------------ worker_thread
\* task_queue.get(); a task with no row is created with its default stages
WDequeue ==
  /\ wpc = "get"
  /\ task_queue # <<>>
  /\ LET task == Head(task_queue)
     IN /\ wtask' = [task_id |-> task.task_id, repo_url |-> task.repo_url,
                      title |-> task.title, seq |-> task.seq,
                      terminal |-> FALSE]
        /\ db' = IF get_documentation_task(db, task.task_id) = NoTask
                 THEN CreatePendingTask(db, clock, task.task_id,
                                        task.repo_url, task.title)
                 ELSE db
  /\ task_queue' = Tail(task_queue)
  /\ wpc' = "mark_running"
  /\ UNCHANGED <<clock, lastCall, runs, agent_lock, loop, queries, rag_lock,
                 nqueries, files, documentation_jobs, submitted, writers,
                 built>>

\* Faulty variant: the exception of the constructor ends the worker thread.
WMarkRunning_exception_ends_thread ==
  /\ wpc = "mark_running"
  /\ db' = save_documentation_task(db, clock, wtask.task_id, wtask.repo_url,
             wtask.title, "running", 10, "fetching_repository", None, NoTime,
             NoUrl, None)
  /\ \E constructed \in BOOLEAN :
       IF constructed
       THEN /\ runs' = [runs EXCEPT !["worker"] =
                         StartRun(wtask.task_id, wtask.repo_url, wtask.title)]
            /\ wpc' = "run"
       ELSE /\ runs' = runs
            /\ wpc' = "terminated"
  /\ UNCHANGED <<task_queue, clock, lastCall, wtask, agent_lock, loop,
                 queries, rag_lock, nqueries, files, documentation_jobs,
                 submitted, writers, built>>

\* status running, progress 10, then agent = DocumentationAgent() and
\* generate_documentation is started. The constructor builds the Bedrock
\* model and the Agent outside the inner try block: an exception it raises
\* reaches the outer except clause, which only logs it.
WMarkRunning ==
  /\ wpc = "mark_running"
  /\ db' = save_documentation_task(db, clock, wtask.task_id, wtask.repo_url,
             wtask.title, "running", 10, "fetching_repository", None, NoTime,
             NoUrl, None)
  /\ \E constructed \in BOOLEAN :
       IF constructed
       THEN /\ runs' = [runs EXCEPT !["worker"] =
                         StartRun(wtask.task_id, wtask.repo_url, wtask.title)]
            /\ wpc' = "run"
       ELSE /\ runs' = runs
            /\ wpc' = "task_done"
  /\ UNCHANGED <<task_queue, clock, lastCall, wtask, agent_lock, loop,
                 queries, rag_lock, nqueries, files, documentation_jobs,
                 submitted, writers, built>>

\* f"/api/v2/documentation/file/{os.path.basename(output_path)}", where
\* output_path is the path of index.md
WorkerOutputUrl == [dir |-> <<>>, file |-> "index.md"]

\* generate_documentation returned its output path
WCompleted ==
  /\ wpc = "run"
  /\ runs["worker"].pc = "returned"
  /\ db' = save_documentation_task(db, clock, wtask.task_id, wtask.repo_url,
             wtask.title, "completed", 100, None, None, clock,
             WorkerOutputUrl, None)
  /\ submitted' = WindowTerminal(submitted, wtask.task_id)
  /\ wtask' = [wtask EXCEPT !.terminal = TRUE]
  /\ wpc' = "task_done"
  /\ UNCHANGED <<task_queue, clock, lastCall, runs, agent_lock, loop,
                 queries, rag_lock, nqueries, files, documentation_jobs,
                 writers, built>>

\* generate_documentation raised: status failed, progress 0, error = str(e)
WFailed ==
  /\ wpc = "run"
  /\ runs["worker"].pc = "raised"
  /\ db' = save_documentation_task(db, clock, wtask.task_id, wtask.repo_url,
             wtask.title, "failed", 0, None, runs["worker"].exc, clock,
             NoUrl, None)
  /\ submitted' = WindowTerminal(submitted, wtask.task_id)
  /\ wtask' = [wtask EXCEPT !.terminal = TRUE]
  /\ wpc' = "task_done"
  /\ UNCHANGED <<task_queue, clock, lastCall, runs, agent_lock, loop,
                 queries, rag_lock, nqueries, files, documentation_jobs,
                 writers, built>>

\* finally: task_queue.task_done(), and the loop takes the next task
WTaskDone ==
  /\ wpc = "task_done"
  /\ wpc' = "get"
  /\ runs' = [runs EXCEPT !["worker"] = IdleRun]
  /\ UNCHANGED <<db, task_queue, clock, lastCall, wtask, agent_lock, loop,
                 queries, rag_lock, nqueries, files, documentation_jobs,
                 submitted, writers, built>>

\* ------------------------------------------------------- the reset endpoint
\* POST /api/v2/documentation/reset/{request_id}; a missing task is a 404.
\* The status goes to pending, the stage rows are reset and a new
\* generate_documentation is started as a task of the event loop. When
\* DocumentationAgent() raises, the except clause answers success=False: the
\* rows stay as reset and no run is started.
Reset(request_id, r) ==
  /\ loop = "idle"
  /\ clock < MaxCalls
  /\ r \in ResetRuns
  /\ runs[r].pc = "none"
  /\ r = "reset2" => runs["reset1"].pc # "none"
  /\ LET task_info == get_documentation_task(db, request_id)
     IN /\ task_info # NoTask
        /\ db' = reset_documentation_stages(
                   update_documentation_task_status(db, request_id,
                                                    "pending", NoTime, None),
                   request_id)
        /\ \E constructed \in BOOLEAN :
             /\ runs' = IF constructed
                        THEN [runs EXCEPT ![r] =
                                StartRun(request_id, task_info.repo_url,
                                         task_info.title)]
                        ELSE runs
             /\ documentation_jobs' =
                  IF constructed THEN documentation_jobs \cup {request_id}
                  ELSE documentation_jobs \ {request_id}
             /\ lastCall' = Call("reset", request_id, FALSE,
                                 task_info.status, FALSE, NoWindow,
                                 constructed)
  /\ clock' = clock + 1
  /\ UNCHANGED <<task_queue, wpc, wtask, agent_lock, loop, queries, rag_lock,
                 nqueries, files, submitted, writers, built>>

\* ------------------------------------------------- the direct Agent callers
RagThreads == {"rag1", "rag2"}
QueryThreads == RagThreads \cup {"chat_v1", "chat_v2"}

\* POST /api/page/generate hands generate_page_task to the executor; the
\* task reaches rag.call
RagStart(t) ==
  /\ t \in RagThreads
  /\ loop = "idle"
  /\ nqueries < MaxQueries
  /\ queries[t] = "idle"
  /\ queries' = [queries EXCEPT ![t] = "acquire"]
  /\ nqueries' = nqueries + 1
  /\ UNCHANGED <<db, task_queue, clock, lastCall, wpc, wtask, runs,
                 agent_lock, loop, rag_lock, files, documentation_jobs,
                 submitted, writers, built>>

\* RAG.call: with agent_lock (the lock of api.rag): self.agent(prompt)
RagCall(t) ==
  /\ t \in RagThreads
  /\ queries[t] = "acquire"
  /\ rag_lock.owner \in {"none", t}
  /\ rag_lock' = LockAcquire(rag_lock, t)
  /\ queries' = [queries EXCEPT ![t] = "in_call"]
  /\ UNCHANGED <<db, task_queue, clock, lastCall, wpc, wtask, runs,
                 agent_lock, loop, nqueries, files, documentation_jobs,
                 submitted, writers, built>>

RagReturn(t) ==
  /\ t \in RagThreads
  /\ queries[t] = "in_call"
  /\ rag_lock' = LockRelease(rag_lock)
  /\ queries' = [queries EXCEPT ![t] = "idle"]
  /\ UNCHANGED <<db, task_queue, clock, lastCall, wpc, wtask, runs,
                 agent_lock, loop, nqueries, files, documentation_jobs,
                 submitted, writers, built>>

\* chat_completions_stream: response = agent(prompt) inside the streaming
\* generator, on the event-loop thread and under no lock
ChatV1Call ==
  /\ loop = "idle"
  /\ nqueries < MaxQueries
  /\ queries["chat_v1"] = "idle"
  /\ queries' = [queries EXCEPT !["chat_v1"] = "in_call"]
  /\ loop' = "chat_v1"
  /\ nqueries' = nqueries + 1
  /\ UNCHANGED <<db, task_queue, clock, lastCall, wpc, wtask, runs,
                 agent_lock, rag_lock, files, documentation_jobs, submitted,
                 writers, built>>

ChatV1Return ==
  /\ queries["chat_v1"] = "in_call"
  /\ queries' = [queries EXCEPT !["chat_v1"] = "idle"]
  /\ loop' = "idle"
  /\ UNCHANGED <<db, task_queue, clock, lastCall, wpc, wtask, runs,
                 agent_lock, rag_lock, nqueries, files, documentation_jobs,
                 submitted, writers, built>>

\* chat_completions_stream_v2: await loop.run_in_executor(None, run_agent),
\* under no lock
ChatV2Call ==
  /\ loop = "idle"
  /\ nqueries < MaxQueries
  /\ queries["chat_v2"] = "idle"
  /\ queries' = [queries EXCEPT !["chat_v2"] = "in_call"]
  /\ nqueries' = nqueries + 1
  /\ UNCHANGED <<db, task_queue, clock, lastCall, wpc, wtask, runs,
                 agent_lock, loop, rag_lock, files, documentation_jobs,
                 submitted, writers, built>>

ChatV2Return ==
  /\ queries["chat_v2"] = "in_call"
  /\ queries' = [queries EXCEPT !["chat_v2"] = "idle"]
  /\ UNCHANGED <<db, task_queue, clock, lastCall, wpc, wtask, runs,
                 agent_lock, loop, rag_lock, nqueries, files,
                 documentation_jobs, submitted, writers, built>>

\* the Agent invocations in flight
InFlight ==
  {r \in RunIds : runs[r].pc = "in_call"}
    \cup {t \in QueryThreads : queries[t] = "in_call"}

\* --------------------------- save_documentation_stage, statement by statement
\* The worker thread and the event-loop thread (the submission path and the
\* runs that reset starts) each open a connection of their own; a call is
\* its SELECT followed by its UPDATE or INSERT, and the calls of the two
\* threads interleave between the two statements.
StageWriters == {"W", "E"}

IdleWriter == [pc |-> "idle", task_id |-> <<>>, name |-> None, seen |-> FALSE]

\* the stage names the two threads write
WrittenStages == {"content_generation", "content_generation_chapter-1"}

\* the arguments of the call sites: the default row, the row in progress,
\* the completed row and the failed row
StageWriteKinds == {"default", "Processing", "Completed", "Error"}

StageWriteArgs(kind, name) ==
  CASE kind = "default" ->
         [description |-> "Generating documentation content",
          completed |-> FALSE, execution_time |-> None, error |-> None]
    [] kind = "Processing" ->
         [description |-> "Processing", completed |-> FALSE,
          execution_time |-> None, error |-> None]
    [] kind = "Completed" ->
         [description |-> "Completed", completed |-> TRUE,
          execution_time |-> "1.0", error |-> None]
    [] kind = "Error" ->
         [description |-> "Error", completed |-> FALSE,
          execution_time |-> None, error |-> "generator error"]

\* cursor.execute("SELECT id ... WHERE task_id = ? AND name = ?"); fetchone()
StageSelect(t, task_id, name) ==
  /\ writers[t].pc = "idle"
  /\ writers' = [writers EXCEPT ![t] =
       [pc |-> "selected", task_id |-> task_id, name |-> name,
        seen |-> stage_exists(db, task_id, name)]]
  /\ UNCHANGED <<db, task_queue, clock, lastCall, wpc, wtask, runs,
                 agent_lock, loop, queries, rag_lock, nqueries, files,
                 documentation_jobs, submitted, built>>

\* the UPDATE or the INSERT, then commit (or rollback and return False)
StageWrite(t, kind) ==
  /\ writers[t].pc = "selected"
  /\ LET a == StageWriteArgs(kind, writers[t].name)
     IN db' = save_documentation_stage_seen(db, writers[t].seen,
                writers[t].task_id, writers[t].name, a.description,
                a.completed, a.execution_time, a.error)
  /\ writers' = [writers EXCEPT ![t] = IdleWriter]
  /\ UNCHANGED <<task_queue, clock, lastCall, wpc, wtask, runs, agent_lock,
                 loop, queries, rag_lock, nqueries, files,
                 documentation_jobs, submitted, built>>

\* delete_documentation_task called by an endpoint on the event-loop thread,
\* between two calls of that thread
StageDelete(task_id) ==
  /\ writers["E"].pc = "idle"
  /\ StageRows(db, task_id) # {}
  /\ db' = delete_documentation_task(db, task_id)
  /\ UNCHANGED <<task_queue, clock, lastCall, wpc, wtask, runs, agent_lock,
                 loop, queries, rag_lock, nqueries, files,
                 documentation_jobs, submitted, writers, built>>

\* ------------------------------------------- _create_user_prompt by itself
NoPrompt ==
  [stage |-> None, previous_results |-> <<>>, file_tree |-> <<>>,
   readme |-> 0,
   prompt |-> [tree |-> [chars |-> 0, truncated |-> FALSE],
               readme |-> [chars |-> 0, truncated |-> FALSE],
               prior |-> <<>>]]

\* the lengths of the lines of a file tree, of a README and of a stage
\* result that the calls are made with
LineLens == {3, 7, 23, 39999}
ReadmeLens == {0, 100, 20004}
ResultLens == {100, 68972, 80004, 91428, 140000}
ResultKeys == {"code_analysis", "planning", "content_generation",
               "optimization"}

FileTrees == UNION {[1..n -> LineLens] : n \in 0..MaxLines}

\* one call of _create_user_prompt
CreateUserPrompt(stage, prev, file_tree, readme) ==
  /\ built' = [stage |-> stage, previous_results |-> prev,
               file_tree |-> file_tree, readme |-> readme,
               prompt |-> create_user_prompt(stage, prev, file_tree, readme)]
  /\ UNCHANGED <<db, task_queue, clock, lastCall, wpc, wtask, runs,
                 agent_lock, loop, queries, rag_lock, nqueries, files,
                 documentation_jobs, submitted, writers>>

\* ------------------------------------------------------- the specifications
NoCall ==
  [op |-> None, request_id |-> <<>>, force |-> FALSE,
   existing |-> None, enqueued |-> FALSE, window |-> NoWindow,
   success |-> FALSE]

Init ==
  /\ db = [tasks |-> <<>>, stages |-> {}]
  /\ task_queue = <<>>
  /\ clock = 0
  /\ lastCall = NoCall
  /\ wpc = "get"
  /\ wtask = [task_id |-> <<>>, repo_url |-> None, title |-> None,
              seq |-> 0, terminal |-> TRUE]
  /\ runs = [r \in RunIds |-> IdleRun]
  /\ agent_lock = [owner |-> "none", count |-> 0]
  /\ loop = "idle"
  /\ queries = [t \in QueryThreads |-> "idle"]
  /\ rag_lock = [owner |-> "none", count |-> 0]
  /\ nqueries = 0
  /\ files = <<>>
  /\ documentation_jobs = {}
  /\ submitted = [p \in Requests |-> NoWindow]
  /\ writers = [t \in StageWriters |-> IdleWriter]
  /\ built = NoPrompt

Worker == WDequeue \/ WMarkRunning \/ WCompleted \/ WFailed \/ WTaskDone

RunStep(r, maxCh, maxFail) ==
  \/ Fetch(r) \/ SaveFirst(r) \/ SaveStage(r) \/ Acquire(r)
  \/ GenOk(r, maxCh) \/ GenTransient(r, maxFail) \/ Backoff(r)
  \/ GenError(r, maxFail) \/ PostPlanning(r) \/ SaveFinal(r)

\* the requests of the submission specifications
SpecUrls == {"https://github.com/acme/foo"}

\* the submission and delete endpoints and the worker
Next ==
  \/ \E u \in SpecUrls, t \in Titles, force \in BOOLEAN : Submit(u, t, force)
  \/ \E id \in JobIds : Delete(id)
  \/ Worker
  \/ RunStep("worker", PlanSmall, FewFailures)

Spec == Init /\ [][Next]_vars

\* the same with the worker thread scheduled again and again: the thread is
\* a daemon thread of its own and every await of its run is answered
SpecFair ==
  /\ Spec
  /\ WF_vars(Worker)
  /\ WF_vars(RunStep("worker", PlanSmall, FewFailures))

\* one submitted job, the reset endpoint, the worker and the runs that reset
\* starts on the event loop
NextReset ==
  \/ \E u \in SpecUrls, t \in Titles : clock = 0 /\ Submit(u, t, FALSE)
  \/ \E id \in JobIds, r \in ResetRuns : clock <= MaxResets /\ Reset(id, r)
  \/ Worker
  \/ \E r \in RunIds : RunStep(r, PlanSmall, FewFailures)
  \/ \E r \in ResetRuns : RunEnd(r)

SpecReset == Init /\ [][NextReset]_vars

\* one submitted job that the worker has not dequeued yet, reset as often as
\* MaxCalls allows, and the runs that the resets start on the event loop
NextLock ==
  \/ \E u \in SpecUrls, t \in Titles : clock = 0 /\ Submit(u, t, FALSE)
  \/ \E id \in JobIds, r \in ResetRuns : Reset(id, r)
  \/ \E r \in ResetRuns : RunStep(r, PlanSmall, FewFailures)
  \/ \E r \in ResetRuns : RunEnd(r)

SpecLock == Init /\ [][NextLock]_vars

\* one submitted job run by the worker, with plans of up to MaxChapters
\* chapters
PipelineUrl == "https://github.com/acme/foo"

NextPipeline ==
  \/ \E t \in Titles : clock = 0 /\ Submit(PipelineUrl, t, FALSE)
  \/ Worker
  \/ RunStep("worker", MaxChapters, MaxFailures)

SpecPipeline == Init /\ [][NextPipeline]_vars

\* the worker's runs next to the direct Agent callers
NextQueries ==
  \/ \E t \in Titles : clock = 0 /\ Submit(PipelineUrl, t, FALSE)
  \/ Worker
  \/ RunStep("worker", PlanSmall, FewFailures)
  \/ \E t \in RagThreads : RagStart(t) \/ RagCall(t) \/ RagReturn(t)
  \/ ChatV1Call \/ ChatV1Return \/ ChatV2Call \/ ChatV2Return

SpecQueries == Init /\ [][NextQueries]_vars

\* the save_documentation_stage calls of the two threads, in any order and
\* interleaving
NextStages ==
  \/ \E t \in StageWriters, id \in JobIds, name \in WrittenStages :
       StageSelect(t, id, name)
  \/ \E t \in StageWriters, kind \in StageWriteKinds : StageWrite(t, kind)
  \/ \E id \in JobIds : StageDelete(id)

SpecStages == Init /\ [][NextStages]_vars

\* two repositories, the non-forced submission and the delete endpoint, the
\* worker
TwoUrls == {"https://github.com/acme/foo", "https://github.com/acme/bar"}

NextDelete ==
  \/ \E u \in TwoUrls, t \in Titles : Submit(u, t, FALSE)
  \/ \E id \in JobIds : Delete(id)
  \/ Worker
  \/ RunStep("worker", PlanSmall, FewFailures)

SpecDelete == Init /\ [][NextDelete]_vars

\* _create_user_prompt called once, for any stage, with file trees, READMEs
\* and previous results of the lengths above
NextPrompt ==
  /\ built = NoPrompt
  /\ \E stage \in FixedStages, keys \in SUBSET ResultKeys,
        file_tree \in FileTrees, readme \in ReadmeLens :
       \E prev \in [keys -> ResultLens] :
         CreateUserPrompt(stage, prev, file_tree, readme)

SpecPrompt == Init /\ [][NextPrompt]_vars

TypeOK ==
  /\ \A id \in DOMAIN db.tasks : db.tasks[id].progress \in Nat
  /\ agent_lock.count \in 0..2
  /\ loop \in {"idle", "chat_v1"} \cup ResetRuns

\* ------------------------------------------------------------- properties
\* the job of the worker's run and its stage rows, read when the worker has
\* written the final status of the task
WorkerDone == wpc = "task_done"

WorkerJob == get_documentation_task(db, wtask.task_id)

RowCompleted(task_id, name) ==
  \E row \in StageRows(db, task_id) : row.name = name /\ row.completed

\* the run made a Generator call for the fixed stage s; the calls of
\* content_generation are the calls of the chapters
Attempted(run, s) ==
  IF s = "content_generation"
  THEN \E k \in 1..Len(ChapterStage) : ChapterStage[k] \in run.invoked
  ELSE s \in run.invoked

\* the Generator call of the fixed stage s raised out of process_stage
FailedIn(run, s) ==
  \E f \in run.failed :
    IF s = "content_generation"
    THEN \E k \in 1..Len(ChapterStage) : f[1] = ChapterStage[k]
    ELSE f[1] = s

\* C1: when the fetch and every Generator call of the worker's run succeeded,
\* the job ends completed with a non-empty output_url and a completed row for
\* each of the five fixed stages.
C1_AllSucceedAllStagesCompleted ==
  (WorkerDone /\ runs["worker"].fetched /\ runs["worker"].nfail = 0)
    => /\ WorkerJob.status = "completed"
       /\ WorkerJob.output_url # NoUrl
       /\ \A s \in FixedStages : RowCompleted(wtask.task_id, s)

\* C2: at most one Agent invocation is in flight in the process, counting the
\* stage calls of process_stage, RAG.call and the chat endpoints.
C2_OneInvocationInFlight == Cardinality(InFlight) <= 1

\* C3: the Generator calls made for one job id follow the fixed order
\* code_analysis, planning, chapters in plan order, optimization,
\* quality_check, and no call for the job is made between two calls of
\* another run of the same job.
C3_StagesOfAJobInOrder == \A r \in RunIds : runs[r].inOrder

C5_ForceSubmitReplacesJob ==
  [][(/\ clock' # clock
      /\ lastCall'.op = "submit"
      /\ lastCall'.force
      /\ lastCall'.existing # None)
       => LET id == lastCall'.request_id
          IN /\ id \in DOMAIN db'.tasks
             /\ db'.tasks[id].created_at = clock'
             /\ db'.tasks[id].status = "pending"
             /\ db'.tasks[id].progress = 0
             /\ db'.tasks[id].error = None
             /\ db'.tasks[id].completed_at = NoTime
             /\ db'.tasks[id].output_url = NoUrl
             /\ {r \in db'.stages : r.task_id = id}
                  = {[task_id |-> id, name |-> stages[i],
                      description |-> DefaultDescription(stages[i]),
                      completed |-> FALSE, execution_time |-> None,
                      error |-> None] : i \in 1..Len(stages)}
             /\ lastCall'.enqueued]_vars

\* a forced submission has just replaced a completed job whose run had
\* written output files
C5_ForcedOverCompletedJob ==
  /\ lastCall.op = "submit"
  /\ lastCall.force
  /\ lastCall.existing = "completed"
  /\ DOMAIN files # {}
  /\ get_documentation_task(db, lastCall.request_id).status = "pending"

\* C6: while the status of a job stays running, the progress written to its
\* row never decreases.
C6_ProgressNeverDecreases ==
  [][\A id \in (DOMAIN db.tasks) \cap (DOMAIN db'.tasks) :
       (db.tasks[id].status = "running" /\ db'.tasks[id].status = "running")
         => db'.tasks[id].progress >= db.tasks[id].progress]_vars

\* C7: the progress of every job row is in 0..100.
C7_ProgressInRange ==
  \A id \in DOMAIN db.tasks : db.tasks[id].progress \in 0..100

\* C8: a run whose planning call raised a non-transient error has, when it
\* ends, called the Generator for content_generation, optimization and
\* quality_check.
C8_PlanningFailureContinues ==
  (WorkerDone /\ <<"planning", "generator error">> \in runs["worker"].failed)
    => /\ Attempted(runs["worker"], "content_generation")
       /\ Attempted(runs["worker"], "optimization")
       /\ Attempted(runs["worker"], "quality_check")

\* C9: when the Generator call of a fixed stage failed, the run has, when it
\* ends, called the Generator for every later fixed stage.
C9_FailureNeverSkipsLaterStages ==
  WorkerDone
    => \A i, j \in 1..Len(stages) :
         (i < j /\ FailedIn(runs["worker"], stages[i]))
           => Attempted(runs["worker"], stages[j])

\* C10: at the end of a run a stage row of the job is completed exactly when
\* the Generator call of that stage returned in the run.
C10_RowCompletedIffCallSucceeded ==
  WorkerDone
    => \A row \in StageRows(db, wtask.task_id) :
         row.completed <=> row.name \in runs["worker"].results

\* the stage row under which run r records the failure of stage key k
FailureRecorded(d, task_id, k, err) ==
  \E row \in StageRows(d, task_id) :
    row.name = k /\ ~row.completed /\ row.error = err

\* C11: the retry loop of process_stage never calls the Generator more than 3
\* times for a stage, and a stage fails with the transient "Too many tokens"
\* error only after exactly 3 calls, the failure being written to its stage
\* row as completed=false with the error text.
C11_TransientFailsAfterThreeCalls ==
  [][\A r \in RunIds :
       /\ runs'[r].pc \in {"in_call", "backoff"}
            => Invocations(runs'[r]) <= 3
       /\ \A f \in runs'[r].failed \ runs[r].failed :
            f[2] = "Too many tokens"
              => /\ runs[r].pc = "in_call"
                 /\ Invocations(runs[r]) = 3
                 /\ FailureRecorded(db', runs[r].task_id, f[1], f[2])]_vars

\* the code_analysis call of the worker's run has raised "Too many tokens" on
\* each of its three attempts and the stage has failed
C11_ThreeTransientFailures ==
  /\ runs["worker"].failed = {<<"code_analysis", "Too many tokens">>}
  /\ runs["worker"].nfail = 3
  /\ runs["worker"].stage = "planning"
  /\ FailureRecorded(db, runs["worker"].task_id, "code_analysis",
                     "Too many tokens")

\* C12: only the transient error is followed by a backoff sleep; an exception
\* of any other kind fails the stage in the step of the call that raised it,
\* with no further call and no sleep, so a first call that raises it is the
\* only call of the stage.
C12_OtherErrorsNotRetried ==
  [][\A r \in RunIds :
       /\ runs'[r].pc = "backoff" => runs'[r].caught = "Too many tokens"
       /\ \A f \in runs'[r].failed \ runs[r].failed :
            f[2] # "Too many tokens"
              => /\ runs[r].pc = "in_call"
                 /\ runs'[r].pc \notin {"in_call", "backoff"}
                 /\ runs'[r].retry = runs[r].retry
                 /\ runs'[r].delay = runs[r].delay
                 /\ (runs[r].nfail = 0
                       => Invocations(runs'[r]) = 1
                          /\ runs'[r].delay = retry_delay)]_vars

\* the first code_analysis call of the worker's run raised another error and
\* the stage failed after that single call
C12_FailedOnFirstCall ==
  /\ runs["worker"].failed = {<<"code_analysis", "generator error">>}
  /\ runs["worker"].nfail = 1
  /\ runs["worker"].retry = 0
  /\ runs["worker"].stage = "planning"

\* C13: when the worker is done with a job it dequeued, the job is recorded
\* as completed with an output_url or as failed with an error.
C13_DequeuedJobEndsTerminal ==
  WorkerDone
    => \/ WorkerJob.status = "completed" /\ WorkerJob.output_url # NoUrl
       \/ WorkerJob.status = "failed" /\ WorkerJob.error # None

\* the stage rows a job has when it is created
DefaultStageRows(task_id) ==
  {[task_id |-> task_id, name |-> stages[i],
    description |-> DefaultDescription(stages[i]), completed |-> FALSE,
    execution_time |-> None, error |-> None] : i \in 1..Len(stages)}

\* C14: a run of the worker that fetch_repository_structure left with its
\* exception has made no Generator call and written no stage row, and the
\* worker records the job as failed with the error text.
C14_FetchFailureAbortsRun ==
  (runs["worker"].pc = "raised" /\ ~runs["worker"].fetched)
    => /\ runs["worker"].invoked = {}
       /\ runs["worker"].results = {}
       /\ StageRows(db, wtask.task_id) = DefaultStageRows(wtask.task_id)
       /\ WorkerDone
            => /\ WorkerJob.status = "failed"
               /\ WorkerJob.error = "Could not fetch repository structure"
               /\ WorkerJob.output_url = NoUrl

\* the worker has recorded a job whose fetch failed
C14_FetchFailed ==
  /\ WorkerDone
  /\ runs["worker"].pc = "raised"
  /\ ~runs["worker"].fetched
  /\ runs["worker"].exc = "Could not fetch repository structure"

\* C15: a run that an exception interrupted after a stage result was stored
\* leaves the job with status partial, an output_url and a document saved at
\* the index path.
C15_InterruptedRunIsPartial ==
  (WorkerDone /\ runs["worker"].pc = "raised" /\ runs["worker"].results # {})
    => /\ WorkerJob.status = "partial"
       /\ WorkerJob.output_url # NoUrl
       /\ IndexPath(runs["worker"]) \in DOMAIN files

\* C16: a run in which every Generator call made for a stage failed, so that
\* no stage result exists when it ends, leaves the job failed.
C16_NoResultMeansFailed ==
  (/\ WorkerDone
   /\ runs["worker"].invoked # {}
   /\ runs["worker"].results = {})
    => WorkerJob.status = "failed"

TerminalStatus == {"completed", "failed", "partial"}

\* C17: once the job row of the job the worker is running holds a terminal
\* status, nothing more is written to the row while the worker handles that
\* run: the terminal write happens once and its status, output_url and
\* completed_at stay as written.
C17_TerminalWrittenOnce ==
  [][(/\ wpc = "run"
      /\ wtask.task_id \in DOMAIN db.tasks
      /\ db.tasks[wtask.task_id].status \in TerminalStatus)
       => /\ wtask.task_id \in DOMAIN db'.tasks
          /\ db'.tasks[wtask.task_id] = db.tasks[wtask.task_id]]_vars

\* C18: the worker takes the queue entries in the order of their put, and it
\* takes the next one only when the run of the current job has ended and the
\* worker has written a terminal status for it.
C18_OneJobFullyBeforeNext ==
  [][(wpc = "get" /\ wpc' = "mark_running")
       => /\ wtask.terminal
          /\ runs["worker"].pc = "none"
          /\ wtask'.seq > wtask.seq
          /\ \A i \in 1..Len(task_queue') : task_queue'[i].seq > wtask'.seq]_vars

\* C19: an endpoint call (a submission, forced or not, a delete, a reset)
\* leaves the job row and the stage rows of every job whose status is
\* running as they are.
C19_EndpointsLeaveRunningJobAlone ==
  [][clock' # clock
       => \A id \in DOMAIN db.tasks :
            db.tasks[id].status = "running"
              => /\ id \in DOMAIN db'.tasks
                 /\ db'.tasks[id] = db.tasks[id]
                 /\ StageRows(db', id) = StageRows(db, id)]_vars

\* what C20 says of the step of a reset call for job id
ResetEffect(id) ==
  /\ id \in DOMAIN db'.tasks
  /\ db'.tasks[id].status = "pending"
  /\ {row.name : row \in StageRows(db', id)}
       = {row.name : row \in StageRows(db, id)}
  /\ \A row \in StageRows(db', id) :
       ~row.completed /\ row.execution_time = None
  /\ Cardinality({r \in RunIds : runs'[r] # runs[r]}) = 1
  /\ \A r \in RunIds :
       runs'[r] # runs[r]
         => /\ runs[r].pc = "none"
            /\ runs'[r] = StartRun(id, db.tasks[id].repo_url,
                                   db.tasks[id].title)

C21_SubmitEnqueuesIffNewOrFailed ==
  [][(clock' # clock /\ lastCall'.op = "submit" /\ ~lastCall'.force)
       => LET id == lastCall'.request_id
              old == get_documentation_task(db, id)
          IN IF old = NoTask \/ old.status = "failed"
             THEN /\ Len(task_queue') = Len(task_queue) + 1
                  /\ SubSeq(task_queue', 1, Len(task_queue)) = task_queue
                  /\ task_queue'[Len(task_queue')].task_id = id
             ELSE /\ task_queue' = task_queue
                  /\ db' = db
                  /\ id = old.request_id]_vars

\* a non-forced submission has just put a failed job on the queue again
C21_FailedJobResubmitted ==
  /\ lastCall.op = "submit"
  /\ ~lastCall.force
  /\ lastCall.existing = "failed"
  /\ lastCall.enqueued
  /\ Len(task_queue) = 1
  /\ get_documentation_task(db, lastCall.request_id).status = "pending"

\* C22: a save_documentation_task call made for an existing job with
\* task_data and created_at omitted (every write of the worker and of a run)
\* leaves the stored task_data and created_at as they are, and the failed
\* write of the worker, which omits current_stage as well, leaves the stored
\* current_stage as it is.
C22_OmittedFieldsKept ==
  [][clock' = clock
       => \A id \in (DOMAIN db.tasks) \cap (DOMAIN db'.tasks) :
            /\ db'.tasks[id].task_data = db.tasks[id].task_data
            /\ db'.tasks[id].created_at = db.tasks[id].created_at
            /\ (wpc = "run" /\ runs["worker"].pc = "raised"
                  /\ wpc' = "task_done" /\ id = wtask.task_id)
                 => db'.tasks[id].current_stage
                      = db.tasks[id].current_stage]_vars

\* C23: there is at most one stage row for each (task_id, name) pair,
\* whatever the order and interleaving of the save_documentation_stage calls
\* of the two threads.
C23_OneRowPerStage ==
  \A r1, r2 \in db.stages :
    (r1.task_id = r2.task_id /\ r1.name = r2.name) => r1 = r2

\* a thread whose SELECT saw no row is about to INSERT for a pair that the
\* other thread has inserted meanwhile
C23_InsertAfterStaleSelect ==
  \E t \in StageWriters :
    /\ writers[t].pc = "selected"
    /\ ~writers[t].seen
    /\ stage_exists(db, writers[t].task_id, writers[t].name)

\* C24: the delete of job id removes the job row of id and every stage row
\* whose task_id is id, and leaves the job row and the stage rows of every
\* other job as they are.
C24_DeleteRemovesOnlyThatJob ==
  [][(clock' # clock /\ lastCall'.op = "delete")
       => LET id == lastCall'.request_id
          IN /\ id \notin DOMAIN db'.tasks
             /\ StageRows(db', id) = {}
             /\ DOMAIN db'.tasks = (DOMAIN db.tasks) \ {id}
             /\ \A other \in (DOMAIN db.tasks) \ {id} :
                  /\ db'.tasks[other] = db.tasks[other]
                  /\ StageRows(db', other) = StageRows(db, other)]_vars

\* a job has just been deleted while another job, which the worker is
\* running, keeps its row and its stage rows
C24_DeletedNextToRunningJob ==
  /\ lastCall.op = "delete"
  /\ lastCall.request_id \notin DOMAIN db.tasks
  /\ StageRows(db, lastCall.request_id) = {}
  /\ wtask.task_id # lastCall.request_id
  /\ get_documentation_task(db, wtask.task_id).status = "running"
  /\ StageRows(db, wtask.task_id) # {}

\* C25: whatever the planning text is, the extraction of the plan leaves no
\* exception to the run: when the worker's run has ended with a planning
\* result, it has gone on to the optimization stage, and a plan was parsed or
\* the flat fallback document is at the index path.
C25_PlanExtractionNeverRaises ==
  (WorkerDone /\ "planning" \in runs["worker"].results)
    => /\ runs["worker"].pc = "returned"
       /\ Attempted(runs["worker"], "optimization")
       /\ \/ Parsed(runs["worker"].plan)
          \/ /\ IndexPath(runs["worker"]) \in DOMAIN files
             /\ files[IndexPath(runs["worker"])] \notin {"toc"}

\* C26: a run with a planning result from which no plan can be extracted
\* calls the Generator once for content_generation as a single stage, and
\* does so before the optimization stage.
C26_SingleContentGenerationFallback ==
  /\ (WorkerDone /\ "planning" \in runs["worker"].results
        /\ ~Parsed(runs["worker"].plan))
       => "content_generation" \in runs["worker"].invoked
  /\ \A r \in RunIds :
       ("planning" \in runs[r].results /\ ~Parsed(runs[r].plan)
          /\ runs[r].stage = "optimization")
         => "content_generation" \in runs[r].invoked

\* C27: the prompt of the Generator call of a chapter contains the sub-plan
\* of that chapter and the sub-plan of no other chapter.
C27_ChapterPromptHasItsSubPlan ==
  \A r \in RunIds :
    (runs[r].pc = "in_call" /\ runs[r].stage = "content_generation")
      => /\ ChapterId[runs[r].chapter] \in runs[r].prompt
         /\ \A c \in 1..Len(ChapterId) :
              c # runs[r].chapter => ChapterId[c] \notin runs[r].prompt

\* C28: the prompt of every Generator call contains exactly the results of
\* the prior stages its stage is allowed to see, as far as the run has them:
\* none for code_analysis, code_analysis for planning, code_analysis and
\* planning for content_generation, the content-generation results with
\* the results of the chapters for optimization, optimization for
\* quality_check.
C28_PromptHasVisibleResults ==
  \A r \in RunIds :
    LET run == runs[r]
        chapterResults == {ChapterStage[c] : c \in 1..Len(ChapterStage)}
        visible ==
          CASE run.stage = "code_analysis" -> {}
            [] run.stage = "planning" -> {"code_analysis"}
            [] run.stage = "content_generation" ->
                 {"code_analysis", "planning"}
            [] run.stage = "optimization" ->
                 {"content_generation"} \cup chapterResults
            [] run.stage = "quality_check" -> {"optimization"}
            [] OTHER -> {}
    IN run.pc = "in_call" => run.prompt = visible \cap run.results

\* C29: when the estimate of the file tree exceeds 10,000 tokens, the
\* file-tree section of the code_analysis prompt holds at most 40,000
\* characters of file-tree text before the truncation marker.
C29_FileTreeSectionBounded ==
  (built.stage = "code_analysis"
     /\ Tokens(JoinedLen(built.file_tree, Len(built.file_tree))) > 10000)
    => /\ built.prompt.tree.truncated
       /\ built.prompt.tree.chars <= 40000

C31_ProportionalCut ==
  LET prev == built.previous_results
      prior == built.prompt.prior
      ca == Tokens(prev["code_analysis"])
      pl == Tokens(prev["planning"])
  IN (/\ built.stage = "content_generation"
      /\ {"code_analysis", "planning"} \subseteq DOMAIN prev
      /\ ca + pl > 40000)
       => /\ prior["code_analysis"] = 4 * ((40000 * ca) \div (ca + pl))
          /\ prior["planning"] = 4 * ((40000 * pl) \div (ca + pl))
          /\ prior["code_analysis"] + prior["planning"] <= 160000

\* C31 amended: each is cut to 4 * int(40,000 * (its tokens / total tokens))
\* characters, the product being computed in double arithmetic: the floor of
\* the exact product or, when the exact product is an integer, possibly one
\* less; the two included texts have at most 160,000 characters together.
C31_ProportionalCutFloat ==
  LET prev == built.previous_results
      prior == built.prompt.prior
      ca == Tokens(prev["code_analysis"])
      pl == Tokens(prev["planning"])
      Share(t) == (40000 * t) \div (ca + pl)
      Exact(t) == (40000 * t) % (ca + pl) = 0
      CutTo(chars, t) == \/ chars = 4 * Share(t)
                         \/ Exact(t) /\ chars = 4 * (Share(t) - 1)
  IN (/\ built.stage = "content_generation"
      /\ {"code_analysis", "planning"} \subseteq DOMAIN prev
      /\ ca + pl > 40000)
       => /\ CutTo(prior["code_analysis"], ca)
          /\ CutTo(prior["planning"], pl)
          /\ prior["code_analysis"] + prior["planning"] <= 160000

\* a content_generation prompt built from a code_analysis result of 140,000
\* characters and a planning result of 80,004: both were cut
C31_BothResultsCut ==
  /\ built.stage = "content_generation"
  /\ built.previous_results = [code_analysis |-> 140000, planning |-> 80004]
  /\ built.prompt.prior["code_analysis"] = 4 * 25454
  /\ built.prompt.prior["planning"] = 4 * 14545

\* C32: the flat fallback document that a returned run of the worker leaves
\* at the index path has the generation-status table, in which the fixed
\* stages are shown with the outcome they had in the run.
C32_FlatDocumentShowsOutcomes ==
  (/\ WorkerDone
   /\ runs["worker"].pc = "returned"
   /\ IndexPath(runs["worker"]) \in DOMAIN files
   /\ files[IndexPath(runs["worker"])] = "flat_no_content")
    => "generation_status"
         \in DocumentSections(files[IndexPath(runs["worker"])])

\* C33: every index.md that a finished run of the worker leaves has the
\* generation-status section, whether it is the table of contents of a plan
\* or a flat fallback document.
C33_IndexHasStatusSection ==
  (WorkerDone /\ IndexPath(runs["worker"]) \in DOMAIN files)
    => "generation_status"
         \in DocumentSections(files[IndexPath(runs["worker"])])

\* C34: when the chapter loop of a run with a parsed plan is over, each
\* chapter of the plan has had its content_generation_<id> call, its file
\* chapters/<id>.md exists (holding the outline when the call failed), and
\* the table of contents at the index path links the chapters once each, in
\* plan order.
C34_EveryChapterHasStageAndFile ==
  \A r \in RunIds :
    (/\ "planning" \in runs[r].results
     /\ Parsed(runs[r].plan)
     /\ runs[r].stage \in {"optimization", "quality_check"})
      => /\ \A c \in 1..runs[r].nchapters :
              LET path == doc_dir(runs[r].title, runs[r].task_id)
                            \o <<"chapters", ChapterId[c]>>
              IN /\ ChapterStage[c] \in runs[r].invoked
                 /\ path \in DOMAIN files
                 /\ ChapterStage[c] \notin runs[r].results
                      => files[path] = "outline"
         /\ IndexPath(runs[r]) \in DOMAIN files
         /\ files[IndexPath(runs[r])] = "toc"
         /\ runs[r].toc = [c \in 1..runs[r].nchapters |-> ChapterId[c]]

\* the worker's run has finished the chapter loop of a plan of three
\* chapters, of which the second failed
C34_ThreeChaptersOneFailed ==
  /\ runs["worker"].stage = "optimization"
  /\ runs["worker"].nchapters = 3
  /\ ChapterStage[1] \in runs["worker"].results
  /\ ChapterStage[2] \notin runs["worker"].results
  /\ ChapterStage[3] \in runs["worker"].results
  /\ runs["worker"].toc = <<"chapter-1", "chapter-2", "chapter-3">>

\* C35: the task queue never holds two entries of one job id, and never an
\* entry of the job id whose run the worker is executing.
C35_QueueHoldsJobOnce ==
  /\ \A i, j \in 1..Len(task_queue) :
       task_queue[i].task_id = task_queue[j].task_id => i = j
  /\ \A i \in 1..Len(task_queue) :
       ~(wpc \in {"mark_running", "run"}
           /\ wtask.task_id = task_queue[i].task_id)

\* C36: once the rows of a job id are deleted, a step of the worker or of
\* its run (a step that is no call of an endpoint) never writes a Job row or
\* a Stage row of that id again; they come back only with a submit.
C36_NoRowsAfterDelete ==
  [][\A id \in JobIds :
       (/\ clock' = clock
        /\ get_documentation_task(db, id) = NoTask
        /\ \A s \in db.stages : s.task_id # id)
         => /\ get_documentation_task(db', id) = NoTask
            /\ \A s \in db'.stages : s.task_id # id]_vars

\* C37: at most one documentation run is between acquiring and releasing
\* agent_lock in process_stage, the backoff sleep of the holder included.
C37_OneRunInLockedSection ==
  \A r, q \in RunIds :
    (/\ runs[r].pc \in {"in_call", "backoff"}
     /\ runs[q].pc \in {"in_call", "backoff"})
      => r = q

\* C38: when a run started by the reset endpoint ends, by returning or by
\* raising, the status of its job is completed, failed or partial.
C38_ResetRunEndsTerminal ==
  [][\A r \in ResetRuns :
       (runs[r].pc \in {"returned", "raised"} /\ runs'[r].pc = "none")
         => /\ runs[r].task_id \in DOMAIN db'.tasks
            /\ db'.tasks[runs[r].task_id].status
                 \in {"completed", "failed", "partial"}]_vars

\* C39: once the worker has stored the completion of a job that its run
\* returned a document for, the job's output_url names the directory made
\* from the job's title and id, and two completed jobs differ in output_url.
C39_OutputUrlNamesOwnDirectory ==
  /\ (/\ WorkerDone
      /\ runs["worker"].pc = "returned"
      /\ WorkerJob # NoTask
      /\ WorkerJob.status = "completed")
       => WorkerJob.output_url.dir = doc_dir(WorkerJob.title, wtask.task_id)
  /\ \A a, b \in DOMAIN db.tasks :
       (/\ a # b
        /\ db.tasks[a].status = "completed"
        /\ db.tasks[b].status = "completed"
        /\ wpc = "get")
         => db.tasks[a].output_url # db.tasks[b].output_url

\* C40: the worker's loop goes on after every item, whether its processing
\* ended in the inner or the outer except clause: an item on the queue is
\* eventually dequeued and reaches task_done, a dequeue happens only at the
\* head of the loop, and the loop comes back to its head only through the
\* one task_done of the item.
C40_WorkerSurvivesExceptions ==
  /\ \A s \in 1..MaxCalls :
       (\E i \in 1..Len(task_queue) : task_queue[i].seq = s)
         ~> (wpc = "task_done" /\ wtask.seq = s)
  /\ [][/\ wpc = "get" => wpc' \in {"get", "mark_running"}
        /\ wpc \in {"mark_running", "run"}
             => wpc' \in {"mark_running", "run", "task_done"}
        /\ wpc = "task_done" => wpc' \in {"task_done", "get"}
        /\ Len(task_queue') < Len(task_queue)
             => (wpc = "get" /\ wpc' = "mark_running")]_vars

\* the second item of a job has reached task_done with a terminal status,
\* and it was enqueued by a non-forced submit (the row still has its first
\* created_at), that is after the first item had ended failed
C40_ItemAfterFailedItemProcessed ==
  /\ wpc = "task_done"
  /\ wtask.seq = 2
  /\ wtask.terminal
  /\ WorkerJob # NoTask
  /\ WorkerJob.created_at = 1

====
